---- MODULE Spec2Model ----
(***************************************************************************)
(* Two batch scripts.                                                      *)
(*   Pipeline A  deep-learning-a-z/som/som.py : min-max scaling, a trained *)
(*               self-organizing map, a marker plot, and the loop that     *)
(*               collects the customers of the high-distance cells.        *)
(*   Pipeline B  machine-learning-a-z/4.01 - K-Means Clustering : the      *)
(*               elbow loop over K = 1..10, the final fit and the five     *)
(*               label-filtered scatter groups.                            *)
(* Numbers are binary floating-point values with Precision significant     *)
(* bits on a grid of 2^-FracBits; an integer n of the model stands for     *)
(* the value n / 2^FracBits.  Distance-map scores are in hundredths.       *)
(***************************************************************************)
EXTENDS Integers, Sequences, FiniteSets, TLC

VARIABLES pc, dataset, X, y, sc, som, figure, mappings, dist, i, j,
          winning_nodes, frauds, threshold, run2, wcss, kmeans, y_kmeans

vars == <<pc, dataset, X, y, sc, som, figure, mappings, dist, i, j,
          winning_nodes, frauds, threshold, run2, wcss, kmeans, y_kmeans>>

----------------------------------------------------------------------------
(* Bounds of the model.                                                    *)

\* side of the square grid (10 in the script)
GridN == 2
\* significant bits of a floating-point value (53 for a double)
Precision == 4
\* the finest grid of the floating-point values is 2^-FracBits
FracBits == 8
\* tolerance of the scaling round trip, in units in the last place
RoundTripUlps == 2

----------------------------------------------------------------------------
(* Floating-point arithmetic, round to nearest, ties to even.              *)

RECURSIVE Pow2(_)
Pow2(n) == IF n = 0 THEN 1 ELSE 2 * Pow2(n - 1)

One == Pow2(FracBits)

Abs(n) == IF n < 0 THEN -n ELSE n

\* the spacing of the representable values around num/den
RECURSIVE Quantum(_, _, _)
Quantum(num, den, q) ==
    IF num < den * Pow2(Precision) * q THEN q ELSE Quantum(num, den, 2 * q)

RoundPos(num, den) ==
    LET q == Quantum(num, den, 1)
        d == den * q
        fl == num \div d
        rem == num % d
    IN  (IF 2 * rem > d \/ (2 * rem = d /\ fl % 2 = 1) THEN fl + 1 ELSE fl) * q

\* the representable value nearest to num/den (den > 0)
Round(num, den) == IF num < 0 THEN -RoundPos(-num, den) ELSE RoundPos(num, den)

FAdd(a, b) == Round(a + b, 1)
FSub(a, b) == Round(a - b, 1)
FMul(a, b) == Round(a * b, One)
FDiv(a, b) == IF b < 0 THEN Round(-(a * One), -b) ELSE Round(a * One, b)

\* one unit in the last place of a value of magnitude n
Ulp(n) == Quantum(Abs(n), 1, 1)

----------------------------------------------------------------------------
(* Helpers on sequences.                                                   *)

Range(s) == {s[k] : k \in DOMAIN s}

RECURSIVE Flatten(_)
Flatten(ss) == IF ss = <<>> THEN <<>> ELSE Head(ss) \o Flatten(Tail(ss))

SetMin(S) == CHOOSE x \in S : \A z \in S : x <= z

SetMax(S) == CHOOSE x \in S : \A z \in S : x >= z

----------------------------------------------------------------------------
(* Pipeline A: the data of som.py.                                         *)

\* a line of Credit_Card_Applications.csv: customer id, one feature, class
Line(id, f, class) == <<id * One, f * One, class>>

\* the files the model reads
Datasets ==
    { <<Line(1, 3, 0), Line(7, 12, 1)>>,
      <<Line(7, 3, 1), Line(4, 3, 0)>>,
      <<Line(4, 5, 1)>> }

\* the columns of X
Cols == {1, 2}

\* dataset.iloc[:, :-1].values
Features(d) == [r \in DOMAIN d |-> [c \in Cols |-> d[r][c]]]

\* dataset.iloc[:, -1].values
Labels(d) == [r \in DOMAIN d |-> d[r][3]]

Column(T, c) == {T[r][c] : r \in DOMAIN T}

\* MinMaxScaler(feature_range = (0, 1)).fit: per column, scale_ and min_
Fit(T) ==
    [c \in Cols |->
        LET data_min == SetMin(Column(T, c))
            data_max == SetMax(Column(T, c))
            data_range == FSub(data_max, data_min)
            scale == FDiv(One, IF data_range = 0 THEN One ELSE data_range)
        IN  [scale_ |-> scale, min_ |-> FSub(0, FMul(data_min, scale))]]

\* MinMaxScaler.transform of one row: X *= scale_; X += min_
Transform(s, row) == [c \in Cols |-> FAdd(FMul(row[c], s[c].scale_), s[c].min_)]

\* MinMaxScaler.inverse_transform of one row: X -= min_; X /= scale_
InverseTransform(s, row) ==
    [c \in Cols |-> FDiv(FSub(row[c], s[c].min_), s[c].scale_)]

\* sc.fit_transform(X)
FitTransform(T) == [r \in DOMAIN T |-> Transform(Fit(T), T[r])]

\* the cells (x, y) of the grid
Cells == (0 .. GridN - 1) \X (0 .. GridN - 1)

\* the values a cell of som.distance_map() takes: below 0.95, 0.95, 1.0
Scores == {50, 95, 100}

\* the distance maps a training can end with: all cells low but two
DistanceMaps ==
    { [c \in Cells |-> IF c = a THEN sa ELSE IF c = b THEN sb ELSE SetMin(Scores)] :
        a \in Cells, b \in Cells, sa \in Scores, sb \in Scores }

\* the threshold of the selection, in hundredths
Threshold == 95

\* som.distance_map().T
Transpose(dm) == [r \in 0 .. GridN - 1 |-> [c \in 0 .. GridN - 1 |-> dm[<<c, r>>]]]

\* the rows of data whose winner is cell c, in data order, from row k on
RECURSIVE WinList(_, _, _, _)
WinList(s, data, c, k) ==
    IF k > Len(data) THEN <<>>
    ELSE (IF s.winner[data[k]] = c THEN <<k>> ELSE <<>>) \o WinList(s, data, c, k + 1)

\* som.win_map(data): a defaultdict(list), a key for each cell that won a row,
\* its value the rows (views of data, named by their index) in data order
win_map(s, data) ==
    [c \in {s.winner[data[k]] : k \in DOMAIN data} |-> WinList(s, data, c, 1)]

\* mappings[key] of a defaultdict(list): a missing key reads as []
GetItem(m, key) == IF key \in DOMAIN m THEN m[key] ELSE <<>>

\* ... and the read inserts the missing key
Inserted(m, key) ==
    IF key \in DOMAIN m THEN m
    ELSE [c \in DOMAIN m \cup {key} |-> IF c = key THEN <<>> ELSE m[c]]

\* markers = ['o', 's'], colors = ['r', 'g']
markers == <<"o", "s">>
colors == <<"r", "g">>

----------------------------------------------------------------------------
(* Pipeline A: the selection loop, as a step on the state of one run.      *)

\* the comparison not strict
IsWinningGe(d, row, col, thr) == d[row][col] >= thr

\* dist[i][j] > 0.95
IsWinning(d, row, col, thr) == d[row][col] > thr

\* the key not transposed back: (i, j)
NodeKeySwapped(row, col) == <<row, col>>

\* the node appended to winning_nodes and looked up in mappings: (j, i)
NodeKey(row, col) == <<col, row>>

\* the whole of X inverse-scaled instead of the node's rows
InverseRowsAll(s, data, node_map) ==
    [k \in DOMAIN data |-> InverseTransform(s, data[k])]

\* the node's rows appended as they are, still scaled
InverseRowsNone(s, data, node_map) == [k \in DOMAIN node_map |-> data[node_map[k]]]

\* sc.inverse_transform(node_map): a new table, a row per element
InverseRows(s, data, node_map) ==
    [k \in DOMAIN node_map |-> InverseTransform(s, data[node_map[k]])]

\* the two loops nested the other way round
AdvanceColumnMajor(r) ==
    IF r.i < GridN - 1 THEN [r EXCEPT !.i = r.i + 1]
    ELSE IF r.j < GridN - 1 THEN [r EXCEPT !.j = r.j + 1, !.i = 0]
    ELSE [r EXCEPT !.pc = "concat"]

\* the loop variables after the body of iteration (i, j); the loop is over
\* when both ranges are exhausted, i and j keeping their last values
Advance(r) ==
    IF r.j < GridN - 1 THEN [r EXCEPT !.j = r.j + 1]
    ELSE IF r.i < GridN - 1 THEN [r EXCEPT !.i = r.i + 1, !.j = 0]
    ELSE [r EXCEPT !.pc = "concat"]

\* an empty node_map inverse-scaled to an empty table instead of raising
SelectStepSkipEmpty(r, thr, d, s, data) ==
    IF ~(d[r.i][r.j] > thr) THEN Advance(r)
    ELSE LET key == <<r.j, r.i>>
             node_map == GetItem(r.mappings, key)
         IN  Advance([r EXCEPT !.winning_nodes = Append(r.winning_nodes, key),
                               !.mappings = Inserted(r.mappings, key),
                               !.frauds = Append(r.frauds,
                                   [k \in DOMAIN node_map |->
                                       InverseTransform(s, data[node_map[k]])])])

\* one iteration of  for i in range(10): for j in range(10): ...
\* inverse_transform raises on an empty node_map, which ends the run
SelectStep(r, thr, d, s, data) ==
    IF ~IsWinning(d, r.i, r.j, thr) THEN Advance(r)
    ELSE LET key == NodeKey(r.i, r.j)
             node_map == GetItem(r.mappings, key)
             r1 == [r EXCEPT !.winning_nodes = Append(r.winning_nodes, key),
                             !.mappings = Inserted(r.mappings, key)]
         IN  IF node_map = <<>> THEN [r1 EXCEPT !.pc = "error"]
             ELSE Advance([r1 EXCEPT
                     !.frauds = Append(r1.frauds, InverseRows(s, data, node_map))])

\* frauds = np.concatenate(tuple(frauds)); raises when frauds is empty
ConcatStep(r) ==
    IF r.frauds = <<>> THEN [r EXCEPT !.pc = "error"]
    ELSE [r EXCEPT !.frauds = Flatten(r.frauds), !.pc = "done"]

\* the state of a run as the loop starts
StartRun(m) ==
    [pc |-> "select", i |-> 0, j |-> 0, winning_nodes |-> <<>>, frauds |-> <<>>,
     mappings |-> m]

\* the run of the script
ThisRun ==
    [pc |-> pc, i |-> i, j |-> j, winning_nodes |-> winning_nodes,
     frauds |-> frauds, mappings |-> mappings]

SetRun(r) ==
    /\ pc' = r.pc
    /\ i' = r.i
    /\ j' = r.j
    /\ winning_nodes' = r.winning_nodes
    /\ frauds' = r.frauds
    /\ mappings' = r.mappings

Off == [pc |-> "off"]

----------------------------------------------------------------------------
(* Pipeline A: the script, statement by statement.                         *)

varsB == <<wcss, kmeans, y_kmeans>>

InitA ==
    /\ pc = "scale"
    /\ dataset \in Datasets
    /\ X = Features(dataset)
    /\ y = Labels(dataset)
    /\ sc = "unfit"
    /\ som = "untrained"
    /\ figure = <<>>
    /\ mappings = <<>>
    /\ dist = <<>>
    /\ i = 0
    /\ j = 0
    /\ winning_nodes = <<>>
    /\ frauds = <<>>
    /\ wcss = <<>>
    /\ kmeans = "none"
    /\ y_kmeans = <<>>

Init ==
    /\ InitA
    /\ threshold = Threshold
    /\ run2 = Off

\* X = sc.fit_transform(X)
Scale ==
    /\ pc = "scale"
    /\ sc' = Fit(X)
    /\ X' = FitTransform(X)
    /\ pc' = "train"
    /\ UNCHANGED <<dataset, y, som, figure, mappings, dist, i, j, winning_nodes,
                   frauds, threshold, run2>>
    /\ UNCHANGED varsB

\* som = MiniSom(...); som.random_weights_init(X); som.train_random(X, 100):
\* some winner for each vector and some distance map
Train ==
    /\ pc = "train"
    /\ \E w \in [Range(X) -> Cells], dm \in DistanceMaps :
          som' = [winner |-> w, distance_map |-> dm]
    /\ pc' = "pcolor"
    /\ UNCHANGED <<dataset, X, y, sc, figure, mappings, dist, i, j, winning_nodes,
                   frauds, threshold, run2>>
    /\ UNCHANGED varsB

\* bone(); pcolor(som.distance_map().T); colorbar()
Heatmap ==
    /\ pc = "pcolor"
    /\ figure' = [heat |-> Transpose(som.distance_map), marks |-> <<>>]
    /\ i' = 0
    /\ pc' = "plot"
    /\ UNCHANGED <<dataset, X, y, sc, som, mappings, dist, j, winning_nodes,
                   frauds, threshold, run2>>
    /\ UNCHANGED varsB

\* one iteration of  for i, x in enumerate(X): w = som.winner(x); plot(...)
\* coordinates are in halves: w + 0.5 is 2 * w + 1
PlotMarker ==
    /\ pc = "plot"
    /\ LET x == X[i + 1]
           w == som.winner[x]
       IN  figure' = [figure EXCEPT !.marks = Append(@,
                        [x |-> 2 * w[1] + 1, y |-> 2 * w[2] + 1,
                         marker |-> markers[y[i + 1] + 1],
                         markeredgecolor |-> colors[y[i + 1] + 1]])]
    /\ IF i + 1 < Len(X) THEN i' = i + 1 /\ pc' = "plot"
                         ELSE i' = i /\ pc' = "win_map"
    /\ UNCHANGED <<dataset, X, y, sc, som, mappings, dist, j, winning_nodes,
                   frauds, threshold, run2>>
    /\ UNCHANGED varsB

\* show(); mappings = som.win_map(X); dist = som.distance_map().T;
\* winning_nodes = []; frauds = []; the loops start at i = 0, j = 0
WinMap ==
    /\ pc = "win_map"
    /\ dist' = Transpose(som.distance_map)
    /\ SetRun(StartRun(win_map(som, X)))
    /\ UNCHANGED <<dataset, X, y, sc, som, figure, threshold, run2>>
    /\ UNCHANGED varsB

\* the iteration with the inverse scaling written back into the rows of X
SelectCellInPlace ==
    /\ pc = "select"
    /\ SetRun(SelectStep(ThisRun, threshold, dist, sc, X))
    /\ X' = IF IsWinning(dist, i, j, threshold)
            THEN [r \in DOMAIN X |->
                    IF r \in Range(GetItem(mappings, NodeKey(i, j)))
                    THEN InverseTransform(sc, X[r]) ELSE X[r]]
            ELSE X
    /\ UNCHANGED <<dataset, y, sc, som, figure, dist, threshold, run2>>
    /\ UNCHANGED varsB

\* one iteration of the selection loop
SelectCell ==
    /\ pc = "select"
    /\ SetRun(SelectStep(ThisRun, threshold, dist, sc, X))
    /\ UNCHANGED <<dataset, X, y, sc, som, figure, dist, threshold, run2>>
    /\ UNCHANGED varsB

\* frauds = np.concatenate(tuple(frauds))
Concatenate ==
    /\ pc = "concat"
    /\ SetRun(ConcatStep(ThisRun))
    /\ UNCHANGED <<dataset, X, y, sc, som, figure, dist, threshold, run2>>
    /\ UNCHANGED varsB

Next ==
    \/ Scale
    \/ Train
    \/ Heatmap
    \/ PlotMarker
    \/ WinMap
    \/ SelectCell
    \/ Concatenate

Spec == Init /\ [][Next]_vars

----------------------------------------------------------------------------
(* A second run of the selection on the same trained map, with its own     *)
(* threshold, started when the first run has ended.                        *)

InitThr ==
    /\ InitA
    /\ threshold \in Scores
    /\ \E t \in Scores : t >= threshold /\ run2 = [pc |-> "wait", threshold |-> t]

Frame2 ==
    /\ UNCHANGED <<pc, dataset, X, y, sc, som, figure, mappings, dist, i, j,
                   winning_nodes, frauds, threshold>>
    /\ UNCHANGED varsB

WithThreshold(r, t) ==
    [pc |-> r.pc, i |-> r.i, j |-> r.j, winning_nodes |-> r.winning_nodes,
     frauds |-> r.frauds, mappings |-> r.mappings, threshold |-> t]

Run2Start ==
    /\ pc \in {"done", "error"}
    /\ run2.pc = "wait"
    /\ run2' = WithThreshold(StartRun(win_map(som, X)), run2.threshold)
    /\ Frame2

Run2Select ==
    /\ run2.pc = "select"
    /\ run2' = WithThreshold(SelectStep(run2, run2.threshold, dist, sc, X),
                             run2.threshold)
    /\ Frame2

Run2Concatenate ==
    /\ run2.pc = "concat"
    /\ run2' = WithThreshold(ConcatStep(run2), run2.threshold)
    /\ Frame2

NextThr ==
    \/ Next
    \/ Run2Start
    \/ Run2Select
    \/ Run2Concatenate

SpecThr == InitThr /\ [][NextThr]_vars

----------------------------------------------------------------------------
(* Pipeline B: K-Means Clustering.py.  Coordinates are the integers of the *)
(* file; objective values are exact, scaled by Factorial(number of         *)
(* records) so that they are integers.                                     *)

\* the candidate cluster counts of the elbow loop are 1 .. MaxK (10 in the
\* script)
MaxK == 3

\* n_clusters of the final fit
FinalK == 5

\* a line of Mall_Customers.csv, columns 3 and 4: income and spending score
Point(a, b) == <<a, b>>

\* the files the model reads
MallDatasets ==
    { <<Point(0, 0), Point(1, 0), Point(2, 0), Point(4, 0), Point(9, 0)>>,
      <<Point(0, 0), Point(0, 3), Point(4, 0), Point(4, 3), Point(9, 9), Point(9, 9)>>,
      <<Point(1, 1), Point(5, 2)>> }

RECURSIVE Factorial(_)
Factorial(n) == IF n = 0 THEN 1 ELSE n * Factorial(n - 1)

RECURSIVE SumOver(_, _)
SumOver(S, f) ==
    IF S = {} THEN 0
    ELSE LET x == CHOOSE x \in S : TRUE IN f[x] + SumOver(S \ {x}, f)

\* a centre is the mean of n points, kept as their sums
CentreOf(data, S) ==
    [sx |-> SumOver(S, [r \in S |-> data[r][1]]),
     sy |-> SumOver(S, [r \in S |-> data[r][2]]),
     n |-> Cardinality(S)]

\* n^2 times the squared distance from p to centre c
ScaledDist2(p, c) ==
    (c.n * p[1] - c.sx) * (c.n * p[1] - c.sx) + (c.n * p[2] - c.sy) * (c.n * p[2] - c.sy)

\* p is no farther from centre a than from centre b
NoFarther(p, a, b) == ScaledDist2(p, a) * b.n * b.n <= ScaledDist2(p, b) * a.n * a.n

\* the label of the nearest centre, the first of several (argmin)
Nearest(p, centres) ==
    SetMin({k \in DOMAIN centres :
                \A m \in DOMAIN centres : NoFarther(p, centres[k], centres[m])}) - 1

\* the assignment step
Assign(data, centres) == [r \in DOMAIN data |-> Nearest(data[r], centres)]

Members(labels, k) == {r \in DOMAIN labels : labels[r] = k - 1}

\* the update step: each centre becomes the mean of its records
Update(data, labels, centres) ==
    [k \in DOMAIN centres |->
        IF Members(labels, k) = {} THEN centres[k]
        ELSE CentreOf(data, Members(labels, k))]

\* Lloyd's iteration to the point where the labels no longer change
RECURSIVE Lloyd(_, _, _)
Lloyd(data, centres, labels) ==
    LET new == Assign(data, centres)
    IN  IF new = labels THEN [labels_ |-> labels, cluster_centers_ |-> centres]
        ELSE Lloyd(data, Update(data, new, centres), new)

\* the sum of squared distances of the records to the means of their
\* clusters, times Factorial(Len(data))
Inertia(data, labels, K) ==
    LET F == Factorial(Len(data))
    IN  SumOver({k \in 1 .. K : Members(labels, k) # {}},
                [k \in 1 .. K |->
                    IF Members(labels, k) = {} THEN 0
                    ELSE LET S == Members(labels, k)
                             c == CentreOf(data, S)
                         IN  F * SumOver(S, [r \in S |->
                                    data[r][1] * data[r][1] + data[r][2] * data[r][2]])
                             - (F \div c.n) * (c.sx * c.sx + c.sy * c.sy)])

\* the initial centres k-means++ can draw: K records at different points
Inits(data, K) ==
    {init \in [1 .. K -> DOMAIN data] :
        \A a, b \in 1 .. K : a # b => data[init[a]] # data[init[b]]}

\* KMeans(n_clusters = K, init = 'k-means++', n_init = 10, ...).fit(data):
\* the models a fit can end with, one for each draw of the initial centres
KMeansFits(data, K) ==
    {LET m == Lloyd(data, [k \in 1 .. K |-> CentreOf(data, {init[k]})], <<>>)
     IN  [n_clusters |-> K, labels_ |-> m.labels_,
          cluster_centers_ |-> m.cluster_centers_,
          inertia_ |-> Inertia(data, m.labels_, K)] : init \in Inits(data, K)}

\* the loop fitting one cluster more than its variable says
ElbowFitsOffByOne(data, k) == KMeansFits(data, k + 1)

\* the fit of the elbow loop for loop variable k: n_clusters = i
ElbowFits(data, k) == KMeansFits(data, k)

\* the groups filtered on the labels 1 .. 5
ScatterGroupOffByOne(data, labels, lbl) ==
    LET mask == {r \in DOMAIN data : labels[r] = lbl + 1}
    IN  [mask |-> mask,
         xs |-> {<<r, data[r][1]>> : r \in mask},
         ys |-> {<<r, data[r][2]>> : r \in mask}]

\* X[y_kmeans == lbl, 0], X[y_kmeans == lbl, 1]
ScatterGroup(data, labels, lbl) ==
    LET mask == {r \in DOMAIN data : labels[r] = lbl}
    IN  [mask |-> mask,
         xs |-> {<<r, data[r][1]>> : r \in mask},
         ys |-> {<<r, data[r][2]>> : r \in mask}]

varsA == <<y, sc, som, mappings, dist, j, winning_nodes, frauds, threshold, run2>>

InitB ==
    /\ pc = "elbow"
    /\ dataset \in MallDatasets
    /\ X = dataset
    /\ i = 1
    /\ wcss = <<>>
    /\ kmeans = "none"
    /\ y_kmeans = <<>>
    /\ figure = <<>>
    /\ y = <<>>
    /\ sc = "unfit"
    /\ som = "untrained"
    /\ mappings = <<>>
    /\ dist = <<>>
    /\ j = 0
    /\ winning_nodes = <<>>
    /\ frauds = <<>>
    /\ threshold = Threshold
    /\ run2 = Off

\* one iteration of  for i in range(1, 11): kmeans = KMeans(n_clusters = i,
\* ...); kmeans.fit(X); wcss.append(kmeans.inertia_)
\* fit raises when there are fewer records than clusters
ElbowFit ==
    /\ pc = "elbow"
    /\ IF Len(X) < i
       THEN pc' = "error" /\ UNCHANGED <<kmeans, wcss, i>>
       ELSE /\ \E m \in ElbowFits(X, i) :
                  /\ kmeans' = m
                  /\ wcss' = Append(wcss, m.inertia_)
            /\ IF i < MaxK THEN i' = i + 1 /\ pc' = "elbow"
                           ELSE i' = i /\ pc' = "plot_elbow"
    /\ UNCHANGED <<dataset, X, figure, y_kmeans>>
    /\ UNCHANGED varsA

\* plt.plot(range(1, 11), wcss); ...; plt.show()
PlotElbow ==
    /\ pc = "plot_elbow"
    /\ figure' = [elbow |-> [k \in 1 .. MaxK |-> wcss[k]]]
    /\ pc' = "final"
    /\ UNCHANGED <<dataset, X, i, wcss, kmeans, y_kmeans>>
    /\ UNCHANGED varsA

\* kmeans = KMeans(n_clusters = 5, ...); y_kmeans = kmeans.fit_predict(X)
FinalFit ==
    /\ pc = "final"
    /\ IF Len(X) < FinalK
       THEN pc' = "error" /\ UNCHANGED <<kmeans, y_kmeans>>
       ELSE /\ \E m \in KMeansFits(X, FinalK) :
                  /\ kmeans' = m
                  /\ y_kmeans' = m.labels_
            /\ pc' = "scatter"
    /\ UNCHANGED <<dataset, X, i, wcss, figure>>
    /\ UNCHANGED varsA

\* the five plt.scatter calls on the label-filtered records, the centroids,
\* plt.show()
Scatter ==
    /\ pc = "scatter"
    /\ figure' = [groups |-> <<ScatterGroup(X, y_kmeans, 0), ScatterGroup(X, y_kmeans, 1),
                              ScatterGroup(X, y_kmeans, 2), ScatterGroup(X, y_kmeans, 3),
                              ScatterGroup(X, y_kmeans, 4)>>,
                  centroids |-> kmeans.cluster_centers_]
    /\ pc' = "shown"
    /\ UNCHANGED <<dataset, X, i, wcss, kmeans, y_kmeans>>
    /\ UNCHANGED varsA

NextB ==
    \/ ElbowFit
    \/ PlotElbow
    \/ FinalFit
    \/ Scatter

SpecB == InitB /\ [][NextB]_vars

----------------------------------------------------------------------------
(* Pipeline B: what the claims speak of.                                   *)

ElbowDone == pc \in {"plot_elbow", "final", "scatter", "shown"}

\* the loop has recorded one value for each of K = 1 .. i - 1, in that order
OnePerK ==
    /\ pc = "elbow" => Len(wcss) = i - 1
    /\ ElbowDone => Len(wcss) = MaxK
    /\ pc \in {"elbow", "plot_elbow"} =>
          \A k \in DOMAIN wcss : wcss[k] \in {m.inertia_ : m \in KMeansFits(X, k)}

C8_LabelsPartitionRecords ==
    /\ pc \in {"scatter", "shown"} =>
          /\ DOMAIN y_kmeans = DOMAIN X
          /\ \A r \in DOMAIN X : y_kmeans[r] \in 0 .. FinalK - 1
    /\ pc = "shown" =>
          /\ Len(figure.groups) = FinalK
          /\ \A r \in DOMAIN X :
                /\ Cardinality({g \in DOMAIN figure.groups :
                                    r \in figure.groups[g].mask}) = 1
                /\ r \in figure.groups[y_kmeans[r] + 1].mask
          /\ \A g \in DOMAIN figure.groups :
                /\ figure.groups[g].mask \subseteq DOMAIN X
                /\ figure.groups[g].xs = {<<r, X[r][1]>> : r \in figure.groups[g].mask}
                /\ figure.groups[g].ys = {<<r, X[r][2]>> : r \in figure.groups[g].mask}

\* a shown scatter plot with five non-empty groups, one of two records
C8_Witness ==
    /\ pc = "shown"
    /\ \A g \in DOMAIN figure.groups : figure.groups[g].mask # {}
    /\ \E g \in DOMAIN figure.groups : Cardinality(figure.groups[g].mask) = 2

----------------------------------------------------------------------------
(* Pipeline A: what the claims speak of.                                   *)

Count(s, v) == Cardinality({k \in DOMAIN s : s[k] = v})

InLoop == pc \in {"select", "concat", "done", "error"}

\* the place of dist[row][col] in the enumeration
RankOf(row, col) == row * GridN + col

\* how many iterations of the loop have run (the one that raised included)
VisitedCount == IF pc = "select" THEN RankOf(i, j) ELSE RankOf(i, j) + 1

\* cell (x, y) has had its iteration
VisitedCell(c) == RankOf(c[2], c[1]) < VisitedCount

\* the score of the cell that wins record r exceeds 0.95
HotRecord(r) == som.distance_map[som.winner[X[r]]] > Threshold

HotCells == {c \in Cells : som.distance_map[c] > Threshold}

Populated(c) == \E r \in DOMAIN X : som.winner[X[r]] = c

\* the rows collected so far, one table
FlaggedRows == IF pc = "done" THEN frauds ELSE Flatten(frauds)

\* the original record r, as read from the file
Original(r) == Features(dataset)[r]

\* C1: once the loop has run over the grid and the table is built, the
\* table holds exactly the inverse-scaled records whose winning cell scores
\* strictly above 0.95, each as often as it occurs in the input.
C1_FlaggedExactlyHot ==
    pc = "done" =>
        \A v \in Range(frauds) \cup {InverseTransform(sc, X[r]) : r \in DOMAIN X} :
            Count(frauds, v) =
                Cardinality({r \in DOMAIN X :
                                HotRecord(r) /\ InverseTransform(sc, X[r]) = v})

\* a finished run that flagged one record and left out another whose
\* winning cell scores exactly 0.95
C1_Witness ==
    /\ pc = "done"
    /\ \E r \in DOMAIN X : HotRecord(r)
    /\ \E r \in DOMAIN X : som.distance_map[som.winner[X[r]]] = Threshold

\* C2: every cell (x, y) the loop has been through is in winning_nodes
\* exactly when its own score distance_map[x][y] is strictly above 0.95,
\* winning_nodes holds nothing else, and a completed loop has been through
\* every cell.
C2_NodeIffOwnScore ==
    InLoop =>
        /\ \A c \in Cells :
              VisitedCell(c) =>
                  (c \in Range(winning_nodes) <=> som.distance_map[c] > Threshold)
        /\ \A k \in DOMAIN winning_nodes :
              winning_nodes[k] \in Cells /\ VisitedCell(winning_nodes[k])
        /\ pc \in {"concat", "done"} => \A c \in Cells : VisitedCell(c)

\* a finished run that selected an off-diagonal cell whose mirror cell
\* scores exactly 0.95 and is not selected
C2_Witness ==
    /\ pc = "done"
    /\ \E c \in Range(winning_nodes) :
          /\ c[1] # c[2]
          /\ som.distance_map[<<c[2], c[1]>>] = Threshold
          /\ <<c[2], c[1]>> \notin Range(winning_nodes)

\* C3: the reverse index partitions the input (every record is in exactly
\* one cell's list, once), and no input record is collected more than once.
C3_PartitionNoDuplicates ==
    InLoop =>
        /\ \A c \in DOMAIN mappings : Range(mappings[c]) \subseteq DOMAIN X
        /\ \A r \in DOMAIN X :
              Cardinality({p \in (DOMAIN mappings) \X (DOMAIN X) :
                              /\ p[2] \in DOMAIN mappings[p[1]]
                              /\ mappings[p[1]][p[2]] = r}) = 1
        /\ \A v \in Range(FlaggedRows) :
              Count(FlaggedRows, v) <=
                  Cardinality({r \in DOMAIN X : InverseTransform(sc, X[r]) = v})

\* a finished run that collected two records from two selected cells
C3_Witness ==
    /\ pc = "done"
    /\ Len(winning_nodes) = 2
    /\ Len(frauds) = 2

\* the nodes the first n places of dist, taken row by row, select
RECURSIVE ExpectedNodes(_)
ExpectedNodes(n) ==
    IF n = 0 THEN <<>>
    ELSE LET row == (n - 1) \div GridN
             col == (n - 1) % GridN
         IN  ExpectedNodes(n - 1) \o
                (IF som.distance_map[<<col, row>>] > Threshold
                 THEN << <<col, row>> >> ELSE <<>>)

\* the records of the nodes, node after node, each node's in input order
ExpectedTable ==
    Flatten([k \in DOMAIN winning_nodes |->
                LET rows == WinList(som, X, winning_nodes[k], 1)
                IN  [m \in DOMAIN rows |-> InverseTransform(sc, X[rows[m]])]])

\* C4: the result is fixed by the trained model: winning_nodes is the
\* list of selected nodes in row-major order of dist, and the table is the
\* nodes' records in that order.
C4_RowMajorDeterministic ==
    InLoop =>
        /\ winning_nodes = ExpectedNodes(VisitedCount)
        /\ pc = "done" => frauds = ExpectedTable

\* a finished run with two selected nodes, the first with the larger x
C4_Witness ==
    /\ pc = "done"
    /\ Len(winning_nodes) = 2
    /\ Len(frauds) = 2
    /\ winning_nodes[1][1] > winning_nodes[2][1]

\* the selected records, in the order of the table
FlaggedIndex == Flatten([k \in DOMAIN winning_nodes |-> mappings[winning_nodes[k]]])

\* row is orig up to RoundTripUlps units in the last place of the largest
\* magnitude of its column
Close(row, orig) ==
    \A c \in Cols :
        Abs(row[c] - orig[c]) <=
            RoundTripUlps * Ulp(SetMax({Abs(v) : v \in Column(Features(dataset), c)}))

C9_PlotAndInverseReadOnly ==
    /\ [][pc \notin {"scale", "train"} => UNCHANGED <<X, y, sc, som>>]_vars
    /\ [](InLoop =>
            /\ dist = Transpose(som.distance_map)
            /\ Range(X) \subseteq DOMAIN som.winner
            /\ \A c \in Cells : GetItem(mappings, c) = GetItem(win_map(som, X), c))

\* a finished run that plotted a marker per record and inverse-scaled records
C9_Witness ==
    /\ pc = "done"
    /\ Len(figure.marks) = Len(X)
    /\ Len(figure.marks) = 2
    /\ frauds # <<>>

\* C10: the run ends with a table only when some cell scores above 0.95
\* and every such cell has a record; otherwise it ends in the error raised
\* at the first selected cell without records, or at the concatenation when
\* no cell was selected; an error is final and leaves no table.
C10_TableOrFatalError ==
    /\ pc = "done" =>
          /\ HotCells # {}
          /\ \A c \in HotCells : Populated(c)
          /\ frauds # <<>>
    /\ pc = "error" =>
          /\ ~ENABLED Next
          /\ \/ /\ HotCells = {}
                /\ frauds = <<>>
                /\ winning_nodes = <<>>
             \/ /\ <<j, i>> \in HotCells
                /\ ~Populated(<<j, i>>)
                /\ \A c \in HotCells : RankOf(c[2], c[1]) < RankOf(i, j) => Populated(c)
                /\ Len(frauds) = Len(winning_nodes) - 1
    /\ (InLoop /\ \E c \in HotCells : VisitedCell(c) /\ ~Populated(c)) => pc = "error"

\* a run that collected the records of one cell and then stopped at a
\* selected cell without records
C10_Witness ==
    /\ pc = "error"
    /\ frauds # <<>>

====
